---- MODULE Spec2Model ----
(***************************************************************************)
(* A model of backend/api/views.py: CodeReviewView.post, the one handler   *)
(* of the code-review endpoint, with its two collaborators (the model      *)
(* service and the diagnostic sink) as environment inputs.                 *)
(*                                                                         *)
(* Text is a sequence of characters (strings); a JSON value is a tagged    *)
(* record [t, v].  The handler is a pipeline with one action per stage;    *)
(* an action includes the except clauses that catch what its stage raises. *)
(***************************************************************************)
EXTENDS Integers, Sequences, FiniteSets, TLC

(***************************************************************************)
(* Bounds of the environment's inputs.                                     *)
(***************************************************************************)
\* longest array the model service's reply holds
MaxArrayLen == 1
\* most keys an object of the model service's reply holds
MaxKeys == 1

(***************************************************************************)
(* Text: str.strip, str.startswith, str.split as the handler uses them.    *)
(***************************************************************************)
\* the backquote character U+0060, which cannot be written in a string literal
BT == "BQ"
FenceMarker == <<BT, BT, BT>>
JsonHint == <<"j", "s", "o", "n">>
Whitespace == {" ", "\n"}
Digits == {"0", "1", "2", "3", "4", "5", "6", "7", "8", "9"}
DigitVal(c) ==
    CASE c = "0" -> 0 [] c = "1" -> 1 [] c = "2" -> 2 [] c = "3" -> 3
      [] c = "4" -> 4 [] c = "5" -> 5 [] c = "6" -> 6 [] c = "7" -> 7
      [] c = "8" -> 8 [] c = "9" -> 9
DigitChar(n) ==
    CASE n = 0 -> "0" [] n = 1 -> "1" [] n = 2 -> "2" [] n = 3 -> "3"
      [] n = 4 -> "4" [] n = 5 -> "5" [] n = 6 -> "6" [] n = 7 -> "7"
      [] n = 8 -> "8" [] n = 9 -> "9"

Drop(s, n) == SubSeq(s, n + 1, Len(s))

RECURSIVE LStrip(_)
LStrip(s) == IF s # <<>> /\ Head(s) \in Whitespace THEN LStrip(Tail(s)) ELSE s

RECURSIVE RStrip(_)
RStrip(s) ==
    IF s # <<>> /\ s[Len(s)] \in Whitespace
    THEN RStrip(SubSeq(s, 1, Len(s) - 1))
    ELSE s

\* str.strip()
Strip(s) == RStrip(LStrip(s))

\* str.startswith(p)
StartsWith(s, p) == Len(s) >= Len(p) /\ SubSeq(s, 1, Len(p)) = p

\* str.find(p): the index of the first occurrence of p in s, 0 when there is none
RECURSIVE FindFrom(_, _, _)
FindFrom(s, p, i) ==
    IF i + Len(p) - 1 > Len(s) THEN 0
    ELSE IF SubSeq(s, i, i + Len(p) - 1) = p THEN i
    ELSE FindFrom(s, p, i + 1)
Find(s, p) == FindFrom(s, p, 1)

\* s.split(sep)[1]: what lies between the first and the second occurrence of
\* sep (to the end when there is no second one).  Called only on a text that
\* holds sep, so the index 1 exists.
SplitSecond(s, sep) ==
    LET i == Find(s, sep)
        rest == Drop(s, i + Len(sep) - 1)
        j == Find(rest, sep)
    IN  IF j = 0 THEN rest ELSE SubSeq(rest, 1, j - 1)

\* views.py lines 165-173: the text handed to json.loads
UnwrapFence(content) ==
    LET review_text == Strip(content)
    IN  IF StartsWith(review_text, FenceMarker)
        THEN LET seg == SplitSecond(review_text, FenceMarker)
                 unhinted == IF StartsWith(seg, JsonHint) THEN Drop(seg, 4) ELSE seg
             IN  Strip(unhinted)
        ELSE review_text

(***************************************************************************)
(* JSON values, as json.loads builds them and the handler reads them.      *)
(***************************************************************************)
JNull == [t |-> "null", v |-> <<>>]
JBool(b) == [t |-> "bool", v |-> b]
JNum(n) == [t |-> "num", v |-> n]
JStr(s) == [t |-> "str", v |-> s]
JArr(xs) == [t |-> "arr", v |-> xs]
\* an object is a function from its keys (texts) to its values, like a dict
JObj(f) == [t |-> "obj", v |-> f]
EmptyFn == [k \in {} |-> JNull]

\* Python truth value of a parsed JSON value (views.py line 178)
Truthy(x) ==
    CASE x.t = "null" -> FALSE
      [] x.t = "bool" -> x.v
      [] x.t = "num" -> x.v # 0
      [] x.t = "str" -> x.v # <<>>
      [] x.t = "arr" -> x.v # <<>>
      [] x.t = "obj" -> DOMAIN x.v # {}

\* whether len(x) is defined (otherwise TypeError)
HasLen(x) == x.t \in {"str", "arr", "obj"}

\* whether x.get(...) is defined (otherwise AttributeError)
HasGet(x) == x.t = "obj"

\* dict.get(key, default)
DictGet(x, key, default) == IF key \in DOMAIN x.v THEN x.v[key] ELSE default

ParseFail == [ok |-> FALSE, val |-> JNull, rest |-> <<>>]
ParseOk(val, rest) == [ok |-> TRUE, val |-> val, rest |-> rest]

\* the characters of a string literal up to its closing quote; a raw control
\* character (here the newline) inside a string is a decode error
RECURSIVE ScanString(_, _)
ScanString(s, acc) ==
    IF s = <<>> THEN ParseFail
    ELSE IF Head(s) = "\"" THEN ParseOk(JStr(acc), Tail(s))
    ELSE IF Head(s) = "\n" THEN ParseFail
    ELSE ScanString(Tail(s), Append(acc, Head(s)))

RECURSIVE ScanDigits(_, _)
ScanDigits(s, n) ==
    IF s # <<>> /\ Head(s) \in Digits
    THEN ScanDigits(Tail(s), 10 * n + DigitVal(Head(s)))
    ELSE ParseOk(JNum(n), s)

\* a number: 0, or a non-zero digit followed by digits
ScanNumber(s) ==
    IF Head(s) = "0" THEN ParseOk(JNum(0), Tail(s)) ELSE ScanDigits(s, 0)

RECURSIVE ParseValue(_), ParseElements(_, _), ParseMembers(_, _)

\* one JSON value at the head of s (after optional whitespace)
ParseValue(s) ==
    LET u == LStrip(s)
    IN  IF u = <<>> THEN ParseFail
        ELSE IF Head(u) = "{" THEN
            LET w == LStrip(Tail(u))
            IN  IF w # <<>> /\ Head(w) = "}"
                THEN ParseOk(JObj(EmptyFn), Tail(w))
                ELSE ParseMembers(w, EmptyFn)
        ELSE IF Head(u) = "[" THEN
            LET w == LStrip(Tail(u))
            IN  IF w # <<>> /\ Head(w) = "]"
                THEN ParseOk(JArr(<<>>), Tail(w))
                ELSE ParseElements(w, <<>>)
        ELSE IF Head(u) = "\"" THEN ScanString(Tail(u), <<>>)
        ELSE IF Head(u) \in Digits THEN ScanNumber(u)
        ELSE IF StartsWith(u, <<"n", "u", "l", "l">>) THEN ParseOk(JNull, Drop(u, 4))
        ELSE IF StartsWith(u, <<"t", "r", "u", "e">>) THEN ParseOk(JBool(TRUE), Drop(u, 4))
        ELSE IF StartsWith(u, <<"f", "a", "l", "s", "e">>) THEN ParseOk(JBool(FALSE), Drop(u, 5))
        ELSE ParseFail

\* the elements of an array after its "[", acc the ones read so far
ParseElements(s, acc) ==
    LET r == ParseValue(s)
    IN  IF ~r.ok THEN ParseFail
        ELSE LET w == LStrip(r.rest)
                 xs == Append(acc, r.val)
             IN  IF w = <<>> THEN ParseFail
                 ELSE IF Head(w) = "]" THEN ParseOk(JArr(xs), Tail(w))
                 ELSE IF Head(w) = "," THEN ParseElements(Tail(w), xs)
                 ELSE ParseFail

\* the members of an object after its "{", acc the dict built so far (a
\* repeated key keeps its last value)
ParseMembers(s, acc) ==
    LET u == LStrip(s)
    IN  IF u = <<>> \/ Head(u) # "\"" THEN ParseFail
        ELSE LET k == ScanString(Tail(u), <<>>)
             IN  IF ~k.ok THEN ParseFail
                 ELSE LET c == LStrip(k.rest)
                      IN  IF c = <<>> \/ Head(c) # ":" THEN ParseFail
                          ELSE LET r == ParseValue(Tail(c))
                               IN  IF ~r.ok THEN ParseFail
                                   ELSE LET w == LStrip(r.rest)
                                            d == [x \in DOMAIN acc \cup {k.val.v} |->
                                                     IF x = k.val.v THEN r.val ELSE acc[x]]
                                        IN  IF w = <<>> THEN ParseFail
                                            ELSE IF Head(w) = "}" THEN ParseOk(JObj(d), Tail(w))
                                            ELSE IF Head(w) = "," THEN ParseMembers(Tail(w), d)
                                            ELSE ParseFail

\* json.loads(text): ok is FALSE where it raises json.JSONDecodeError (no
\* value, or text left after the value)
JsonLoads(text) ==
    LET r == ParseValue(text)
    IN  IF r.ok /\ LStrip(r.rest) = <<>> THEN r ELSE ParseFail

(***************************************************************************)
(* The model service's replies: JSON values written out as text, bare or   *)
(* inside a fenced block, and texts that are no JSON.                       *)
(***************************************************************************)
RECURSIVE NumText(_)
NumText(n) == IF n < 10 THEN <<DigitChar(n)>> ELSE NumText(n \div 10) \o <<DigitChar(n % 10)>>

RECURSIVE Serialize(_), SerializeItems(_), SerializeMembers(_, _)

\* a JSON value as text, as json.dumps writes it (the strings drawn here hold
\* no character that needs escaping)
Serialize(x) ==
    CASE x.t = "null" -> <<"n", "u", "l", "l">>
      [] x.t = "bool" -> IF x.v THEN <<"t", "r", "u", "e">> ELSE <<"f", "a", "l", "s", "e">>
      [] x.t = "num" -> NumText(x.v)
      [] x.t = "str" -> <<"\"">> \o x.v \o <<"\"">>
      [] x.t = "arr" -> <<"[">> \o SerializeItems(x.v) \o <<"]">>
      [] x.t = "obj" -> <<"{">> \o SerializeMembers(x.v, DOMAIN x.v) \o <<"}">>

SerializeItems(xs) ==
    IF xs = <<>> THEN <<>>
    ELSE IF Len(xs) = 1 THEN Serialize(Head(xs))
    ELSE Serialize(Head(xs)) \o <<",", " ">> \o SerializeItems(Tail(xs))

SerializeMembers(f, keys) ==
    IF keys = {} THEN <<>>
    ELSE LET k == CHOOSE x \in keys : TRUE
             m == <<"\"">> \o k \o <<"\"", ":", " ">> \o Serialize(f[k])
         IN  IF keys = {k} THEN m ELSE m \o <<",", " ">> \o SerializeMembers(f, keys \ {k})

IssuesKey == <<"i", "s", "s", "u", "e", "s">>
SummaryKey == <<"s", "u", "m", "m", "a", "r", "y">>
ScoreKey == <<"s", "c", "o", "r", "e">>
ReviewKeys == {IssuesKey, SummaryKey, ScoreKey}

\* a text that holds a fence marker, as a suggestion quoting code does
FencedSnippet == <<BT, BT, BT, "x", BT, BT, BT>>

Scalars ==
    {JNull, JBool(TRUE), JNum(0), JNum(7), JStr(<<>>), JStr(<<"o", "k">>), JStr(FencedSnippet)}
ArrayItems == {JNum(1), JStr(FencedSnippet)}
SeqsUpTo(S, n) == UNION {[1..m -> S] : m \in 0..n}
Arrays == {JArr(xs) : xs \in SeqsUpTo(ArrayItems, MaxArrayLen)}
FieldValues == Scalars \cup Arrays
Objects ==
    {JObj(f) : f \in UNION {[K -> FieldValues] :
                               K \in {X \in SUBSET ReviewKeys : Cardinality(X) <= MaxKeys}}}

\* the review of the spec's example: no issues, a summary, a score of 100
SampleReview ==
    JObj([k \in ReviewKeys |->
            IF k = IssuesKey THEN JArr(<<>>)
            ELSE IF k = SummaryKey THEN JStr(<<"o", "k">>)
            ELSE JNum(100)])

JsonValues == FieldValues \cup Objects \cup {SampleReview}

\* a text inside a fenced block, with or without a language hint
Fenced(hint, text) == FenceMarker \o hint \o <<"\n">> \o text \o <<"\n">> \o FenceMarker

WrapStyles == {"bare", "fenced", "fenced_json"}
Wrap(style, text) ==
    CASE style = "bare" -> text
      [] style = "fenced" -> Fenced(<<>>, text)
      [] style = "fenced_json" -> Fenced(JsonHint, text)

\* texts that json.loads rejects
BrokenTexts ==
    { <<>>,
      <<"S", "u", "r", "e", "!">>,
      <<"{">>,
      <<"[", "1", ",", "]">>,
      <<"{", "}", " ", "x">>,
      <<"0", "1">>,
      <<"\"", "\n", "\"">> }

ReplyTexts ==
    {Wrap(w, Serialize(x)) : w \in WrapStyles, x \in JsonValues}
        \cup {Wrap(w, t) : w \in WrapStyles, t \in BrokenTexts}
        \cup {FenceMarker, <<" ">> \o Serialize(SampleReview) \o <<"\n">>}

(***************************************************************************)
(* The handler's inputs: the request payload, the credential, the          *)
(* diagnostic sink's health, the model service's behaviour, the clock.     *)
(***************************************************************************)
\* views.py line 85: the longest code accepted
MaxCodeLength == 10000

\* the value of the payload's code field: its JSON type t and, in n, its
\* length (str, list, dict), its value (num) or 0/1 (bool)
CodeValue(t, n) == [t |-> t, n |-> n]
CodeValues ==
    { CodeValue("absent", 0), CodeValue("null", 0),
      CodeValue("str", 0), CodeValue("str", 1),
      CodeValue("str", MaxCodeLength), CodeValue("str", MaxCodeLength + 1),
      CodeValue("num", 0), CodeValue("num", 123),
      CodeValue("bool", 0), CodeValue("bool", 1),
      CodeValue("list", 0), CodeValue("list", 2), CodeValue("list", MaxCodeLength + 1),
      CodeValue("dict", 0), CodeValue("dict", 1) }

\* the payload's language field
LanguageValues == {"absent", "javascript"}

\* request.data: a JSON object with its fields, a JSON array, or a body the
\* framework cannot parse (request.data raises ParseError)
Requests ==
    {[body |-> "object", code |-> c, language |-> l] : c \in CodeValues, l \in LanguageValues}
        \cup {[body |-> "array", code |-> CodeValue("absent", 0), language |-> "absent"],
              [body |-> "unparsable", code |-> CodeValue("absent", 0), language |-> "absent"]}

\* settings.OPENAI_API_KEY: None, the empty string, or a key
Credentials == {"None", "", "sk-test"}

\* the sentry_sdk operations the handler calls; a sink that is down raises
\* from the operations in the set it is given
SinkOps ==
    {"start_transaction", "start_span", "set_tag", "set_context",
     "set_measurement", "capture_message", "capture_exception"}

\* what OpenAI(...) and chat.completions.create(...) do: raise an exception
\* of class exc, or return a response whose message content is a text or
\* None
Svc(kind, exc, content) == [kind |-> kind, exc |-> exc, content |-> content]
CallErrors ==
    {"APIConnectionError", "AuthenticationError", "APITimeoutError", "JSONDecodeError"}
SvcBehaviours ==
    {Svc("ctor_raises", "OpenAIError", <<>>)}
        \cup {Svc("create_raises", e, <<>>) : e \in CallErrors}
        \cup {Svc("no_content", "", <<>>)}
        \cup {Svc("reply", "", t) : t \in ReplyTexts}
NoSvc == Svc("none", "", <<>>)

\* time.time() - start_time at line 233, in milliseconds
ElapsedChoices == {1204, 3407, 5601}
NoElapsed == 0

\* round(response_time, 2), in hundredths of a second (no value drawn lies
\* halfway between two hundredths)
Round2(ms) == (ms + 5) \div 10

(***************************************************************************)
(* Responses and the outcome of a stage.                                   *)
(***************************************************************************)
HTTP_200_OK == 200
HTTP_400_BAD_REQUEST == 400
HTTP_500_INTERNAL_SERVER_ERROR == 500

NoResponse == [status |-> 0, body |-> <<>>]
ErrorResponse(status, message) == [status |-> status, body |-> [error |-> message]]
ReviewResponse(review_data, response_time) ==
    [status |-> HTTP_200_OK,
     body |-> [review |-> review_data, response_time |-> Round2(response_time)]]

MsgRequired == "Code is required and must be a string"
MsgTooLong == "Code is too long. Maximum 10000 characters allowed"
MsgNotConfigured == "AI service not configured"
MsgParse == "Failed to parse AI response"
MsgAnalysis == "AI analysis failed"
MsgUnexpected == "An unexpected error occurred"

\* a stage either falls through to the next one, returns a response, or
\* lets an exception leave post; built and calls count the OpenAI clients
\* constructed and the chat.completions.create calls made, bound is the set
\* of the handler's locals bound so far
Outcome(kind, resp, built, calls, bound) ==
    [kind |-> kind, resp |-> resp, built |-> built, calls |-> calls, bound |-> bound]
Continue(bound) == Outcome("next", NoResponse, 0, 0, bound)
Return(resp, built, calls, bound) == Outcome("return", resp, built, calls, bound)
Escape(built, calls, bound) == Outcome("escape", NoResponse, built, calls, bound)

\* lines 14-42: whether safe_capture_exception / safe_capture_message lets
\* an exception out; the try/except around the sink call catches what the
\* sink raises and logs it locally
SafeCaptureRaises(op, down) == FALSE

(***************************************************************************)
(* CodeReviewView.post, stage by stage.  down is the set of sink           *)
(* operations that raise.                                                  *)
(***************************************************************************)
\* Python truth value of the code field (absent reads as the default '')
CodeTruthy(c) ==
    CASE c.t \in {"absent", "null"} -> FALSE
      [] OTHER -> c.n # 0

\* whether len(code) is defined (otherwise TypeError)
CodeHasLen(c) == c.t \in {"absent", "str", "list", "dict"}

\* isinstance(code, str)
CodeIsStr(c) == c.t \in {"absent", "str"}

\* line 58: code_length = len(code) if code else 0
CodeLength(c) == IF CodeTruthy(c) THEN c.n ELSE 0

\* a slip at line 85: >= for >
TooLongOffByOne(c) == CodeLength(c) >= MaxCodeLength

\* line 85: code_length > 10000
TooLong(c) == CodeLength(c) > MaxCodeLength

\* line 57: request.data.get('language', 'python')
LanguageOf(rq) == IF rq.language = "absent" THEN "python" ELSE rq.language

ValidatedLocals == {"code", "language", "code_length"}

\* a slip at lines 272-291: the outer clause reports and raises again
OuterExceptReraises(built, calls, bound, down) == Escape(built, calls, bound)

\* lines 272-291: the outer except clause.  It tags the event without a
\* guard, reports through safe_capture_exception (language and code_length
\* read only when bound), and returns the generic error
OuterExcept(built, calls, bound, down) ==
    IF "set_tag" \in down \/ SafeCaptureRaises("capture_exception", down)
    THEN Escape(built, calls, bound)
    ELSE Return(ErrorResponse(HTTP_500_INTERNAL_SERVER_ERROR, MsgUnexpected),
                built, calls, bound)

\* a slip at lines 186-207: no clause for json.JSONDecodeError, so that the
\* general clause answers for it
InnerExceptNoDecodeClause(exc, built, calls, bound, down) ==
    IF "set_tag" \in down
    THEN OuterExcept(built, calls, bound, down)
    ELSE Return(ErrorResponse(HTTP_500_INTERNAL_SERVER_ERROR, MsgAnalysis), built, calls, bound)

\* lines 186-230: the except clauses of the inner try, chosen by the class
\* of the exception; what they raise themselves reaches the outer clause
InnerExcept(exc, built, calls, bound, down) ==
    IF "set_tag" \in down \/ SafeCaptureRaises("capture_exception", down)
    THEN OuterExcept(built, calls, bound, down)
    ELSE IF exc = "JSONDecodeError"
    THEN Return(ErrorResponse(HTTP_500_INTERNAL_SERVER_ERROR, MsgParse), built, calls, bound)
    ELSE Return(ErrorResponse(HTTP_500_INTERNAL_SERVER_ERROR, MsgAnalysis), built, calls, bound)

\* lines 56-99: read the payload, tag the event, validate
ValidateStep(rq, down) ==
    IF rq.body # "object"
    THEN \* line 56: request.data raises, or is a list and has no get
         OuterExcept(0, 0, {}, down)
    ELSE IF CodeTruthy(rq.code) /\ ~CodeHasLen(rq.code)
    THEN \* line 58: len() of a number or of True
         OuterExcept(0, 0, {"code", "language"}, down)
    ELSE IF "set_tag" \in down \/ "set_context" \in down \/ "start_span" \in down
    THEN \* lines 61-73
         OuterExcept(0, 0, ValidatedLocals, down)
    ELSE IF ~CodeTruthy(rq.code) \/ ~CodeIsStr(rq.code)
    THEN IF SafeCaptureRaises("capture_message", down)
         THEN OuterExcept(0, 0, ValidatedLocals, down)
         ELSE Return(ErrorResponse(HTTP_400_BAD_REQUEST, MsgRequired), 0, 0, ValidatedLocals)
    ELSE IF TooLong(rq.code)
    THEN IF SafeCaptureRaises("capture_message", down)
         THEN OuterExcept(0, 0, ValidatedLocals, down)
         ELSE Return(ErrorResponse(HTTP_400_BAD_REQUEST, MsgTooLong), 0, 0, ValidatedLocals)
    ELSE Continue(ValidatedLocals)

\* a slip at line 103: a comparison with the empty string for the truth test
CredentialMissingEmptyOnly(cr) == cr = ""

\* not settings.OPENAI_API_KEY
CredentialMissing(cr) == cr \in {"None", ""}

\* lines 101-114: the credential check
CheckConfigStep(cr, bound, down) ==
    IF "start_span" \in down
    THEN OuterExcept(0, 0, bound, down)
    ELSE IF CredentialMissing(cr)
    THEN IF SafeCaptureRaises("capture_message", down)
         THEN OuterExcept(0, 0, bound \cup {"error_msg"}, down)
         ELSE Return(ErrorResponse(HTTP_500_INTERNAL_SERVER_ERROR, MsgNotConfigured),
                     0, 0, bound \cup {"error_msg"})
    ELSE Continue(bound)

\* lines 117-161: build the client and call the model service once
InvokeStep(sv, bound, down) ==
    IF "start_span" \in down \/ "set_context" \in down
    THEN InnerExcept("SinkError", 0, 0, bound, down)
    ELSE IF sv.kind = "ctor_raises"
    THEN InnerExcept(sv.exc, 1, 0, bound, down)
    ELSE IF sv.kind = "create_raises"
    THEN InnerExcept(sv.exc, 1, 1, bound \cup {"client", "prompt"}, down)
    ELSE Outcome("next", NoResponse, 1, 1, bound \cup {"client", "prompt", "response"})

\* lines 233-270: time the request, report the measurement, answer 200
RespondStep(review_data, el, bound, down) ==
    IF "set_measurement" \in down \/ "set_tag" \in down
          \/ (el > 2000 /\ SafeCaptureRaises("capture_message", down))
    THEN OuterExcept(0, 0, bound \cup {"response_time"}, down)
    ELSE Return(ReviewResponse(review_data, el), 0, 0, bound \cup {"response_time"})

\* lines 164-184 and what follows the inner try on success: take the reply's
\* text out of its fence, parse it, describe the review to the sink, respond
ParseStep(sv, el, bound, down) ==
    IF "start_span" \in down
    THEN InnerExcept("SinkError", 0, 0, bound, down)
    ELSE IF sv.kind = "no_content"
    THEN \* line 165: None has no strip
         InnerExcept("AttributeError", 0, 0, bound, down)
    ELSE LET parsed == JsonLoads(UnwrapFence(sv.content))
             review_data == parsed.val
             b == bound \cup {"review_text"}
         IN  IF ~parsed.ok
             THEN InnerExcept("JSONDecodeError", 0, 0, b, down)
             ELSE IF Truthy(review_data) /\ ~HasGet(review_data)
             THEN \* line 180: review_data.get on a list, a text, a number
                  InnerExcept("AttributeError", 0, 0, b \cup {"review_data"}, down)
             ELSE IF Truthy(review_data)
                       /\ ~HasLen(DictGet(review_data, IssuesKey, JArr(<<>>)))
             THEN \* line 180: len() of issues that is a number, true or null
                  InnerExcept("TypeError", 0, 0, b \cup {"review_data"}, down)
             ELSE IF Truthy(review_data) /\ ("set_context" \in down \/ "set_tag" \in down)
             THEN InnerExcept("SinkError", 0, 0, b \cup {"review_data"}, down)
             ELSE RespondStep(review_data, el, b \cup {"review_data"}, down)

\* lines 50-291: post as a whole
Post(rq, cr, sv, el, down) ==
    IF "start_transaction" \in down
    THEN \* line 52 is outside the try
         Escape(0, 0, {})
    ELSE LET a == ValidateStep(rq, down)
         IN  IF a.kind # "next" THEN a
             ELSE LET b == CheckConfigStep(cr, a.bound, down)
                  IN  IF b.kind # "next" THEN b
                      ELSE LET c == InvokeStep(sv, b.bound, down)
                           IN  IF c.kind # "next" THEN c
                               ELSE LET d == ParseStep(sv, el, c.bound, down)
                                    IN  Outcome(d.kind, d.resp, c.built, c.calls, d.bound)

(***************************************************************************)
(* One request through the handler.                                        *)
(***************************************************************************)
VARIABLES
    pc,           \* the stage the request is in
    request,      \* request.data
    cred,         \* settings.OPENAI_API_KEY
    sinkDown,     \* the sink operations that raise
    svc,          \* what the model service did, once it was asked
    elapsed,      \* response_time in milliseconds, once it was measured
    locals,       \* the names bound in post's frame
    review_text,  \* the text handed to json.loads
    resp,         \* the Response returned
    raised,       \* whether an exception left post
    built,        \* OpenAI clients constructed
    calls         \* chat.completions.create calls made

vars ==
    <<pc, request, cred, sinkDown, svc, elapsed, locals, review_text, resp, raised,
      built, calls>>

Stages == <<"Idle", "Validating", "CheckingConfig", "Invoking", "Parsing", "Done", "Error">>

NoRequest == [body |-> "none", code |-> CodeValue("absent", 0), language |-> "absent"]

Init ==
    /\ pc = "Idle"
    /\ request = NoRequest
    /\ cred = ""
    /\ sinkDown = {}
    /\ svc = NoSvc
    /\ elapsed = NoElapsed
    /\ locals = {}
    /\ review_text = <<>>
    /\ resp = NoResponse
    /\ raised = FALSE
    /\ built = 0
    /\ calls = 0

\* where a stage's outcome leaves the request
StageAfter(o, following) ==
    CASE o.kind = "next" -> following
      [] o.kind = "return" /\ o.resp.status = HTTP_200_OK -> "Done"
      [] OTHER -> "Error"

Settle(o, following) ==
    /\ pc' = StageAfter(o, following)
    /\ resp' = o.resp
    /\ raised' = (o.kind = "escape")
    /\ locals' = o.bound
    /\ built' = built + o.built
    /\ calls' = calls + o.calls

\* line 52: a request arrives and the transaction is opened, outside the try
ReceiveRequest(rq, cr, down) ==
    /\ pc = "Idle"
    /\ request' = rq
    /\ cred' = cr
    /\ sinkDown' = down
    /\ IF "start_transaction" \in down
       THEN Settle(Escape(0, 0, {}), "Validating")
       ELSE Settle(Continue({"start_time"}), "Validating")
    /\ UNCHANGED <<svc, elapsed, review_text>>

\* lines 56-99
Validate ==
    /\ pc = "Validating"
    /\ \E o \in {ValidateStep(request, sinkDown)} : Settle(o, "CheckingConfig")
    /\ UNCHANGED <<request, cred, sinkDown, svc, elapsed, review_text>>

\* lines 101-114
CheckConfig ==
    /\ pc = "CheckingConfig"
    /\ \E o \in {CheckConfigStep(cred, locals, sinkDown)} : Settle(o, "Invoking")
    /\ UNCHANGED <<request, cred, sinkDown, svc, elapsed, review_text>>

\* lines 117-161, with the except clauses for what the call raises
InvokeModel(sv) ==
    /\ pc = "Invoking"
    /\ svc' = sv
    /\ \E o \in {InvokeStep(sv, locals, sinkDown)} : Settle(o, "Parsing")
    /\ UNCHANGED <<request, cred, sinkDown, elapsed, review_text>>

\* lines 164-270, with the except clauses for what parsing raises
ParseResponse(el) ==
    /\ pc = "Parsing"
    /\ \E o \in {ParseStep(svc, el, locals, sinkDown)} :
          /\ Settle(o, "Done")
          /\ review_text' =
                IF "review_text" \in o.bound THEN UnwrapFence(svc.content) ELSE review_text
          /\ elapsed' = IF "response_time" \in o.bound THEN el ELSE elapsed
    /\ UNCHANGED <<request, cred, sinkDown, svc>>

\* the environment's choices are drawn once the stage that reads them is on
Next ==
    \/ /\ pc = "Idle"
       /\ \E rq \in Requests, cr \in Credentials, down \in SUBSET SinkOps :
             ReceiveRequest(rq, cr, down)
    \/ Validate
    \/ CheckConfig
    \/ /\ pc = "Invoking"
       /\ \E sv \in SvcBehaviours : InvokeModel(sv)
    \/ /\ pc = "Parsing"
       /\ \E el \in ElapsedChoices : ParseResponse(el)

Spec == Init /\ [][Next]_vars

(***************************************************************************)
(* Properties.                                                             *)
(***************************************************************************)
Terminal == pc \in {"Done", "Error"}
SinkUp == sinkDown = {}
\* the payload is an object whose code is a text of 1 to 10,000 characters
PassesValidation ==
    /\ request.body = "object"
    /\ request.code.t = "str"
    /\ request.code.n \in 1..10000
RequiredError == [status |-> 400, body |-> [error |-> "Code is required and must be a string"]]
TooLongError ==
    [status |-> 400, body |-> [error |-> "Code is too long. Maximum 10000 characters allowed"]]
NotConfiguredError == [status |-> 500, body |-> [error |-> "AI service not configured"]]
ParseError == [status |-> 500, body |-> [error |-> "Failed to parse AI response"]]
AnalysisError == [status |-> 500, body |-> [error |-> "AI analysis failed"]]
UnexpectedError == [status |-> 500, body |-> [error |-> "An unexpected error occurred"]]

\* C1: with the sink working, a request whose code is absent, empty or not a
\* string is answered 400 "Code is required and must be a string", whatever
\* the language and the credential.
C1_InvalidCodeIs400 ==
    (/\ Terminal
     /\ SinkUp
     /\ request.body = "object"
     /\ (request.code.t # "str" \/ request.code.n = 0))
        => (~raised /\ resp = RequiredError)

\* C2: whatever sink operations raise, post returns the response it returns
\* for the same request, credential, model-service behaviour and clock with
\* a working sink, and no exception leaves it.
C2_SinkNeverChangesResponse ==
    Terminal =>
        /\ ~raised
        /\ \A sv \in (IF svc = NoSvc THEN SvcBehaviours ELSE {svc}),
              el \in (IF elapsed = NoElapsed THEN ElapsedChoices ELSE {elapsed}) :
              LET ref == Post(request, cred, sv, el, {})
              IN  ref.kind = "return" /\ ref.resp = resp

\* C3: with the sink working, a valid request, the credential present and a
\* reply whose unwrapped text parses as JSON, the response is 200 and its
\* review is the parsed value, whatever JSON value that is.
C3_AnyParsedJsonIsReturned ==
    (/\ Terminal
     /\ SinkUp
     /\ svc.kind = "reply"
     /\ JsonLoads(UnwrapFence(svc.content)).ok)
        => (/\ resp.status = 200
            /\ DOMAIN resp.body = {"review", "response_time"}
            /\ resp.body.review = JsonLoads(UnwrapFence(svc.content)).val)

\* the objects whose issues field, when present, has a length: the handler's
\* description of the review to the sink reads len(issues)
Reviews ==
    {J \in Objects \cup {SampleReview} : HasLen(DictGet(J, IssuesKey, JArr(<<>>)))}

\* C4: for every JSON object J (here: every review whose issues has a length),
\* when the reply is J written as text inside a fenced block with a json hint,
\* the text handed to the parser is J's text without fence and hint and the
\* review returned is J, also when texts inside J hold a fence marker.
C4_FenceRoundTrip ==
    \A J \in Reviews :
        (/\ Terminal
         /\ SinkUp
         /\ svc = Svc("reply", "", Fenced(JsonHint, Serialize(J))))
            => (/\ review_text = Serialize(J)
                /\ resp.status = 200
                /\ resp.body.review = J)

\* C5: with the credential None or empty, no OpenAI client is constructed and
\* chat.completions.create is never called; and, the sink working, a request
\* that passes validation ends with 500 "AI service not configured".
C5_NoCredentialNoCall ==
    (pc # "Idle" /\ cred \in {"None", ""}) =>
        /\ built = 0
        /\ calls = 0
        /\ (SinkUp /\ PassesValidation /\ pc \notin {"Validating", "CheckingConfig"})
              => (pc = "Error" /\ ~raised /\ resp = NotConfiguredError)

C5_Witness ==
    /\ pc = "Error"
    /\ cred = "None"
    /\ SinkUp
    /\ PassesValidation
    /\ request.code.n = 10000
    /\ resp.status = 500

\* C6: with the sink working, a reply whose unwrapped text is not valid JSON
\* is answered 500 with the body {error: "Failed to parse AI response"} and
\* nothing else in it.
C6_InvalidJsonIsParseError ==
    (/\ Terminal
     /\ SinkUp
     /\ svc.kind = "reply"
     /\ ~JsonLoads(UnwrapFence(svc.content)).ok)
        => (/\ ~raised
            /\ resp.status = 500
            /\ DOMAIN resp.body = {"error"}
            /\ resp.body.error = "Failed to parse AI response")

C6_Witness ==
    /\ pc = "Error"
    /\ SinkUp
    /\ svc = Svc("reply", "", Fenced(JsonHint, <<"[", "1", ",", "]">>))
    /\ review_text = <<"[", "1", ",", "]">>
    /\ resp.status = 500

\* C7: with the sink working, whatever exception the client's construction
\* or chat.completions.create raises, the response is 500 "AI analysis
\* failed" and the call was made at most once.
C7_CallFailureIsAnalysisError ==
    (/\ Terminal
     /\ SinkUp
     /\ svc.kind \in {"ctor_raises", "create_raises"})
        => (~raised /\ resp = AnalysisError /\ calls <= 1)

\* C8: with the sink working, a code text longer than 10,000 characters is
\* answered 400 "Code is too long. Maximum 10000 characters allowed" whatever
\* the language and the credential, without a call to the model service; a
\* code text of 1 to 10,000 characters passes validation.
C8_LengthLimit ==
    /\ (/\ SinkUp
        /\ pc \notin {"Idle", "Validating"}
        /\ request.body = "object"
        /\ request.code.t = "str"
        /\ request.code.n > 10000)
          => (/\ pc = "Error"
              /\ ~raised
              /\ resp = TooLongError
              /\ built = 0
              /\ calls = 0)
    /\ (SinkUp /\ pc \notin {"Idle", "Validating"} /\ PassesValidation)
          => resp.status # 400

C8_Witness ==
    /\ pc = "Error"
    /\ SinkUp
    /\ cred = "sk-test"
    /\ request.code = CodeValue("str", 10001)
    /\ resp.status = 400

\* the payloads on which post raises before validation answers: no object,
\* or a code that is a non-zero number or true
RaisesBeforeValidation ==
    \/ request.body \in {"array", "unparsable"}
    \/ (request.code.t \in {"num", "bool"} /\ request.code.n # 0)

\* C9: with the sink working, every run of post ends with one response and
\* no exception: 200 with exactly review and response_time, or exactly
\* {error: m} with (status, m) one of the six pairs; what no stage handles
\* (also before language and code_length are bound) is answered 500 "An
\* unexpected error occurred".
C9_OneResponseNoException ==
    SinkUp =>
        /\ ~raised
        /\ ~Terminal => resp = NoResponse
        /\ pc = "Done" =>
              (resp.status = 200 /\ DOMAIN resp.body = {"review", "response_time"})
        /\ pc = "Error" =>
              resp \in {RequiredError, TooLongError, NotConfiguredError, ParseError,
                        AnalysisError, UnexpectedError}
        /\ (Terminal /\ RaisesBeforeValidation) => resp = UnexpectedError

C9_Witness ==
    /\ pc = "Error"
    /\ SinkUp
    /\ request.body = "array"
    /\ "language" \notin locals
    /\ "code_length" \notin locals
    /\ resp.status = 500

StageRank(stage) == CHOOSE i \in 1..Len(Stages) : Stages[i] = stage

\* C10: with the sink working, a request goes through Validating,
\* CheckingConfig, Invoking, Parsing, Done in that order and never back;
\* Error is terminal; the model service is called at most once and only in
\* Invoking; and the error a stage ends with is its own: Validating a 400,
\* CheckingConfig "AI service not configured", Invoking "AI analysis failed",
\* Parsing "Failed to parse AI response".
C10_StageDiscipline ==
    [][sinkDown' = {} =>
          /\ StageRank(pc') >= StageRank(pc)
          /\ pc \notin {"Done", "Error"}
          /\ pc' # "Error" => StageRank(pc') = StageRank(pc) + 1
          /\ calls' # calls => (pc = "Invoking" /\ calls = 0 /\ calls' = 1)
          /\ (pc = "Validating" /\ pc' = "Error") => resp'.status = 400
          /\ (pc = "CheckingConfig" /\ pc' = "Error") => resp' = NotConfiguredError
          /\ (pc = "Invoking" /\ pc' = "Error") => resp' = AnalysisError
          /\ (pc = "Parsing" /\ pc' = "Error") => resp' = ParseError]_vars

====
